---------------------------- MODULE Spec2Model ----------------------------
(***************************************************************************)
(* Rules engine of the pusoy_dos2 card game: the hand classifier           *)
(* (src/src/game/hands.rs), the card model (src/src/cards/cards.rs) and    *)
(* the round state machine Round::submit_move (src/src/game/round.rs).     *)
(*                                                                         *)
(* Option<T> is modelled as a sequence: None is << >>, Some(x) is <<x>>.   *)
(* A player's hand (a Vec<Card> that is only searched and shrunk) is a     *)
(* bag of cards; a submitted card list is a sequence of played cards.      *)
(***************************************************************************)
EXTENDS Integers, Sequences, FiniteSets, Bags, TLC

VARIABLES
    players,      \* Round.players: sequence of [id, hand]
    next_player,  \* Round.next_player: Option<String>
    last_move,    \* Round.last_move: Option<Hand>
    last_player,  \* Round.last_player: Option<String>
    suit_order,   \* Round.suit_order: [Suit; 4]
    rank_order,   \* Round.rank_order: [Rank; 13]
    ruleset,      \* Round.ruleset
    result,       \* outcome of the latest submit_move call
    call,         \* Some([user, cards]) of the latest accepted call
    build_cards,  \* the card list handed to Hand::build
    build_hand,   \* what Hand::build made of build_cards
    cmp_cards,    \* the two cards handed to Card::partial_cmp
    cmp_result,   \* what the comparison made of cmp_cards
    fours         \* how many FourOfAKind moves have been accepted so far

round_vars == <<players, next_player, last_move, last_player,
                suit_order, rank_order, ruleset>>

vars == <<players, next_player, last_move, last_player,
          suit_order, rank_order, ruleset, result, call,
          build_cards, build_hand, cmp_cards, cmp_result, fours>>

-----------------------------------------------------------------------------
(* Option *)

None == << >>

Some(x) == <<x>>

-----------------------------------------------------------------------------
(* Ranks, suits, cards *)

DEFAULT_SUIT_ORDER == <<"Clubs", "Hearts", "Diamonds", "Spades">>

DEFAULT_RANK_ORDER ==
    <<"Three", "Four", "Five", "Six", "Seven", "Eight", "Nine", "Ten",
      "Jack", "Queen", "King", "Ace", "Two">>

IndexOf(seq, x) == CHOOSE i \in 1..Len(seq) : seq[i] = x

Reverse(seq) == [i \in 1..Len(seq) |-> seq[Len(seq) + 1 - i]]

\* Rank's own comparison: the order of the enum's variants.
RankIndex(r) == IndexOf(DEFAULT_RANK_ORDER, r)

\* The suit's own comparison.
SuitIndex(s) == IndexOf(DEFAULT_SUIT_ORDER, s)

\* PlayedCard: the card (rank, suit, reversed) and the joker mark.
PlayedCard(rank, suit, reversed, joker) ==
    [rank |-> rank, suit |-> suit, reversed |-> reversed, joker |-> joker]

\* A card as a player holds it: rank and suit (the deck id is not compared).
Card(rank, suit) == [rank |-> rank, suit |-> suit]

\* The held card a played card stands for.
ToCard(pc) == Card(pc.rank, pc.suit)

\* A chain of ranks that wraps: the rank before Three is Two.
PreviousRank_wrapping(r) ==
    Some(DEFAULT_RANK_ORDER[IF RankIndex(r) = 1 THEN 13 ELSE RankIndex(r) - 1])

\* PlayedCard::previous_rank
PreviousRank(r) ==
    CASE r = "Three" -> None
      [] r = "Four"  -> Some("Three")
      [] r = "Five"  -> Some("Four")
      [] r = "Six"   -> Some("Five")
      [] r = "Seven" -> Some("Six")
      [] r = "Eight" -> Some("Seven")
      [] r = "Nine"  -> Some("Eight")
      [] r = "Ten"   -> Some("Nine")
      [] r = "Jack"  -> Some("Ten")
      [] r = "Queen" -> Some("Jack")
      [] r = "King"  -> Some("Queen")
      [] r = "Ace"   -> Some("King")
      [] r = "Two"   -> Some("Ace")

IntCmp(x, y) == IF x < y THEN "Less" ELSE IF x > y THEN "Greater" ELSE "Equal"

\* A comparison that faults on differing flags and never swaps its operands.
CardPartialCmp_no_swap(self, other) ==
    IF self.reversed # other.reversed THEN "Panic"
    ELSE LET byRank == IntCmp(RankIndex(self.rank), RankIndex(other.rank))
         IN  IF byRank = "Equal"
             THEN IntCmp(SuitIndex(self.suit), SuitIndex(other.suit))
             ELSE byRank

\* A comparison in which the first card's flag decides and nothing faults.
CardPartialCmp_first_flag(self, other) ==
    LET a == IF self.reversed THEN other ELSE self
        b == IF self.reversed THEN self ELSE other
        byRank == IntCmp(RankIndex(a.rank), RankIndex(b.rank))
    IN  IF byRank = "Equal"
        THEN IntCmp(SuitIndex(a.suit), SuitIndex(b.suit))
        ELSE byRank

\* impl PartialOrd for Card: a fault when the reversed flags differ,
\* operands swapped when reversed, rank first and suit on equal ranks.
CardPartialCmp(self, other) ==
    IF self.reversed # other.reversed THEN "Panic"
    ELSE LET a == IF self.reversed THEN other ELSE self
             b == IF self.reversed THEN self ELSE other
             byRank == IntCmp(RankIndex(a.rank), RankIndex(b.rank))
         IN  IF byRank = "Equal"
             THEN IntCmp(SuitIndex(a.suit), SuitIndex(b.suit))
             ELSE byRank

\* derive(PartialOrd) for PlayedCard: the card, then the joker mark.
PlayedCardPartialCmp(a, b) ==
    LET byCard == CardPartialCmp(a, b)
    IN  IF byCard = "Equal"
        THEN IntCmp(IF a.joker THEN 1 ELSE 0, IF b.joker THEN 1 ELSE 0)
        ELSE byCard

PlayedCardLt(a, b) == PlayedCardPartialCmp(a, b) = "Less"

-----------------------------------------------------------------------------
(* Hands *)

Pass == [kind |-> "Pass", trick_type |-> "NoTrick", cards |-> << >>]

Single(c) == [kind |-> "Single", trick_type |-> "NoTrick", cards |-> <<c>>]

Pair(c1, c2) == [kind |-> "Pair", trick_type |-> "NoTrick", cards |-> <<c1, c2>>]

Prial(c1, c2, c3) ==
    [kind |-> "Prial", trick_type |-> "NoTrick", cards |-> <<c1, c2, c3>>]

\* macro build_fct!
build_fct(trick, cards) ==
    Some([kind |-> "FiveCardTrick", trick_type |-> trick,
          cards |-> <<cards[1], cards[2], cards[3], cards[4], cards[5]>>])

\* Hand::get_counts: rank -> number of cards of that rank
get_counts(cards) ==
    [r \in {cards[i].rank : i \in 1..Len(cards)} |->
        Cardinality({i \in 1..Len(cards) : cards[i].rank = r})]

\* Insert c into the sorted sequence s, after every element not greater.
RECURSIVE InsertSorted(_, _)
InsertSorted(s, c) ==
    IF s = << >> THEN <<c>>
    ELSE IF PlayedCardLt(c, Head(s)) THEN <<c>> \o s
    ELSE <<Head(s)>> \o InsertSorted(Tail(s), c)

\* Inserting c into the sorted s compares c with the elements of s in turn,
\* up to the first it is less than; a comparison of cards whose reversed
\* flags differ is a fault.
RECURSIVE InsertPanics(_, _)
InsertPanics(s, c) ==
    IF s = << >> THEN FALSE
    ELSE IF PlayedCardPartialCmp(c, Head(s)) = "Panic" THEN TRUE
    ELSE IF PlayedCardLt(c, Head(s)) THEN FALSE
    ELSE InsertPanics(Tail(s), c)

\* A sort that leaves the cards as they came.
SortOutcome_unsorted(cards) == [panics |-> FALSE, cards |-> cards]

\* The stable ascending sort, card by card: the sorted cards, or the fault
\* of a comparison made on the way.
RECURSIVE SortOutcome(_)
SortOutcome(cards) ==
    IF cards = << >> THEN [panics |-> FALSE, cards |-> << >>]
    ELSE LET before == SortOutcome(SubSeq(cards, 1, Len(cards) - 1))
         IN  IF before.panics \/ InsertPanics(before.cards, cards[Len(cards)])
             THEN [panics |-> TRUE, cards |-> << >>]
             ELSE [panics |-> FALSE,
                   cards |-> InsertSorted(before.cards, cards[Len(cards)])]

\* Hand::sort_cards: the cards sorted
sort_cards(cards) == SortOutcome(cards).cards

\* Whether the sort of the cards makes a comparison that faults.
sort_panics(cards) == SortOutcome(cards).panics

\* The outcome of a build that faults in a comparison: no value is returned.
ComparisonPanic ==
    [kind |-> "Panic", trick_type |-> "NoTrick", cards |-> << >>]

\* Hand::is_straight
is_straight(c) ==
    \A i \in 1..Len(c) :
        \/ i = 1
        \/ /\ PreviousRank(c[i].rank) # None
           /\ c[i-1].rank = PreviousRank(c[i].rank)[1]

\* A flush check that wants five different ranks as well as one suit.
is_flush_five_ranks(c) ==
    /\ \A i \in 1..Len(c) : c[i].suit = c[1].suit
    /\ Cardinality({c[i].rank : i \in 1..Len(c)}) = 5

\* Hand::is_flush
is_flush(c) == \A i \in 1..Len(c) : c[i].suit = c[1].suit

\* A pair check that takes any two cards for a pair.
check_valid_pair_any(cards) == Some(Pair(cards[1], cards[2]))

\* Hand::check_valid_pair
check_valid_pair(cards) ==
    IF Cardinality(DOMAIN get_counts(cards)) = 1
    THEN Some(Pair(cards[1], cards[2]))
    ELSE None

\* Hand::check_valid_prial
check_valid_prial(cards) ==
    IF Cardinality(DOMAIN get_counts(cards)) = 1
    THEN Some(Prial(cards[1], cards[2], cards[3]))
    ELSE None

\* A two-rank arm that looks for the group of three only.
TwoRankTrick_three_only(cards, last_count) ==
    IF last_count = 3 THEN build_fct("FullHouse", cards)
    ELSE build_fct("FourOfAKind", cards)

\* The two-rank arm of check_valid_fct, for the count the map yields last.
TwoRankTrick(cards, last_count) ==
    IF last_count \in {3, 2} THEN build_fct("FullHouse", cards)
    ELSE IF last_count \in {4, 1} THEN build_fct("FourOfAKind", cards)
    ELSE None

\* A five-card check that looks for straights and flushes among five
\* different ranks only.
check_valid_fct_five_ranks(c) ==
    LET sorted == SortOutcome(c)
        cards == sorted.cards
        rank_count == get_counts(cards)
        n == Cardinality(DOMAIN rank_count)
    IN  IF sorted.panics THEN Some(ComparisonPanic)
        ELSE IF n = 1 THEN build_fct("FiveOfAKind", cards)
        ELSE IF n = 2
        THEN CHOOSE h \in {TwoRankTrick(cards, rank_count[r]) :
                              r \in DOMAIN rank_count} : TRUE
        ELSE IF n # 5 THEN None
        ELSE IF is_straight(cards) /\ is_flush(cards)
             THEN build_fct("StraightFlush", cards)
        ELSE IF is_straight(cards) THEN build_fct("Straight", cards)
        ELSE IF is_flush(cards) THEN build_fct("Flush", cards)
        ELSE None

\* Hand::check_valid_fct. The hash map's iteration order is unspecified:
\* the two-rank arm is evaluated for either count being the last one.
check_valid_fct(c) ==
    LET sorted == SortOutcome(c)
        cards == sorted.cards
        rank_count == get_counts(cards)
        n == Cardinality(DOMAIN rank_count)
    IN  IF sorted.panics THEN Some(ComparisonPanic)
        ELSE IF n = 1 THEN build_fct("FiveOfAKind", cards)
        ELSE IF n = 2
        THEN CHOOSE h \in {TwoRankTrick(cards, rank_count[r]) :
                              r \in DOMAIN rank_count} : TRUE
        ELSE IF is_straight(cards) /\ is_flush(cards)
             THEN build_fct("StraightFlush", cards)
        ELSE IF is_straight(cards) THEN build_fct("Straight", cards)
        ELSE IF is_flush(cards) THEN build_fct("Flush", cards)
        ELSE None

\* No call of Hand::build has been made yet.
NotBuilt == [kind |-> "NotBuilt", trick_type |-> "NoTrick", cards |-> << >>]

\* Hand::build
Build(cards) ==
    CASE Len(cards) = 0 -> Some(Pass)
      [] Len(cards) = 1 -> Some(Single(cards[1]))
      [] Len(cards) = 2 -> check_valid_pair(cards)
      [] Len(cards) = 3 -> check_valid_prial(cards)
      [] Len(cards) = 5 -> check_valid_fct(cards)
      [] OTHER -> None

-----------------------------------------------------------------------------
(* The hand comparator (game::compare_hands) *)

\* Trick variants from weakest to strongest.
TrickStrength(t) ==
    CASE t = "Straight"      -> 1
      [] t = "Flush"         -> 2
      [] t = "FullHouse"     -> 3
      [] t = "FourOfAKind"   -> 4
      [] t = "StraightFlush" -> 5
      [] t = "FiveOfAKind"   -> 6

\* a ranks above b under the ordering context: rank precedence, then suit.
CardAbove(a, b, so, ro) ==
    \/ IndexOf(ro, a.rank) > IndexOf(ro, b.rank)
    \/ /\ a.rank = b.rank
       /\ IndexOf(so, a.suit) > IndexOf(so, b.suit)

\* The highest constituent card of a non-empty card list.
HighestCard(cards, so, ro) ==
    CHOOSE c \in {cards[i] : i \in 1..Len(cards)} :
        \A i \in 1..Len(cards) : ~CardAbove(cards[i], c, so, ro)

\* compare_hands(last_move, new_hand, ...): whether new_hand beats last_move.
\* Hands of different shapes are not comparable: the answer is "does not beat".
compare_hands(last, new, flush_precedence, so, ro) ==
    IF last.kind # new.kind \/ last.kind = "Pass" THEN FALSE
    ELSE IF last.kind = "FiveCardTrick"
              /\ TrickStrength(new.trick_type) # TrickStrength(last.trick_type)
         THEN TrickStrength(new.trick_type) > TrickStrength(last.trick_type)
    ELSE CardAbove(HighestCard(new.cards, so, ro),
                   HighestCard(last.cards, so, ro), so, ro)

-----------------------------------------------------------------------------
(* Player *)

\* The bag holding the cards of a sequence.
BagOfSeq(s) ==
    [c \in {s[i] : i \in 1..Len(s)} |->
        Cardinality({i \in 1..Len(s) : s[i] = c})]

Player(id, hand) == [id |-> id, hand |-> hand]

\* Player::get_hand().is_empty()
HandIsEmpty(p) == DOMAIN p.hand = {}

\* Player::has_card
has_card(p, card) == BagIn(card, p.hand)

\* Player::play_move: each submitted card removes one held card; Some(the
\* player with the reduced hand), or None when a card is not (any more) held.
RECURSIVE play_move(_, _)
play_move(p, cards) ==
    IF cards = << >> THEN Some(p)
    ELSE IF ~BagIn(ToCard(Head(cards)), p.hand) THEN None
    ELSE play_move(Player(p.id, p.hand (-) SetToBag({ToCard(Head(cards))})),
                   Tail(cards))

-----------------------------------------------------------------------------
(* Round *)

\* Mutant: players without cards are counted as still in.
get_players_still_in_all(ps) == ps

\* Round::get_players_still_in
get_players_still_in(ps) == SelectSeq(ps, LAMBDA p : ~HandIsEmpty(p))

\* Mutant: the last holder of the lowest card in seating order starts.
get_starting_player_last_holder ==
    LET lowest_card == Card(rank_order[1], suit_order[1])
        holders == {i \in 1..Len(players) : has_card(players[i], lowest_card)}
    IN  IF holders = {} THEN None
        ELSE Some(players[CHOOSE i \in holders : \A j \in holders : i >= j].id)

\* Round::get_starting_player
get_starting_player ==
    LET lowest_card == Card(rank_order[1], suit_order[1])
        holders == {i \in 1..Len(players) : has_card(players[i], lowest_card)}
    IN  IF holders = {} THEN None
        ELSE Some(players[CHOOSE i \in holders : \A j \in holders : i <= j].id)

\* Round::get_next_player
get_next_player ==
    IF next_player = None
    THEN IF Len(get_players_still_in(players)) > 1
         THEN get_starting_player
         ELSE None
    ELSE next_player

\* Round::get_player
get_player(user_id) ==
    LET found == {i \in 1..Len(players) : players[i].id = user_id}
    IN  IF found = {} THEN None
        ELSE Some(players[CHOOSE i \in found : \A j \in found : i <= j])

\* Mutant: the lowest card is looked for by rank alone.
contains_lowest_card_rank_only(cards) ==
    \E i \in 1..Len(cards) : cards[i].rank = rank_order[1]

\* Round::contains_lowest_card
contains_lowest_card(cards) ==
    \E i \in 1..Len(cards) :
        cards[i].rank = rank_order[1] /\ cards[i].suit = suit_order[1]

\* Mutant: the empty submission is not looked for.
check_starting_move_no_pass_check(cards) ==
    IF ~contains_lowest_card(cards)
    THEN Some("FirstHandMustContainLowestCard")
    ELSE None

\* Round::check_starting_move
check_starting_move(cards) ==
    IF cards = << >> THEN Some("FirstRoundPass")
    ELSE IF ~contains_lowest_card(cards)
         THEN Some("FirstHandMustContainLowestCard")
    ELSE None

\* Mutant: the player who moved is not replaced.
get_updated_players_stale(player) ==
    [i \in 1..Len(players) |-> players[i]]

\* Round::get_updated_players
get_updated_players(player) ==
    [i \in 1..Len(players) |->
        IF players[i].id = player.id THEN player ELSE players[i]]

\* Mutant: the two hands are handed to the comparator the other way round.
hand_beats_last_move_swapped(hand) ==
    compare_hands(hand, last_move[1], ruleset.flush_precedence,
                  suit_order, rank_order)

\* Round::hand_beats_last_move
hand_beats_last_move(hand) ==
    compare_hands(last_move[1], hand, ruleset.flush_precedence,
                  suit_order, rank_order)

\* Round::get_next_player_in_rotation
get_next_player_in_rotation(user_id) ==
    IF players[Len(players)].id = user_id THEN players[1].id
    ELSE LET found == {i \in 1..Len(players) : players[i].id = user_id}
             index == IF found = {} THEN 1
                      ELSE (CHOOSE i \in found : \A j \in found : i >= j) + 1
         IN  players[index].id

\* Mutant: the last player is never recognised.
LastPlayerOrInvalid_never(new_last_player) == "invalid_player"

\* new_last_player.unwrap_or("invalid_player")
LastPlayerOrInvalid(new_last_player) ==
    IF new_last_player = None THEN "invalid_player" ELSE new_last_player[1]

\* Mutant: players without cards are not skipped.
RotationLoop_no_skip(np, new_last_move, new_last_player, advances) ==
    [diverged |-> FALSE, last_move |-> new_last_move, next_player |-> np]

\* Mutant: the table is not cleared when the last player is met while
\* players without cards are skipped.
RECURSIVE RotationLoop_no_clear(_, _, _, _)
RotationLoop_no_clear(np, new_last_move, new_last_player, advances) ==
    IF ~HandIsEmpty(get_player(np)[1])
    THEN [diverged |-> FALSE, last_move |-> new_last_move, next_player |-> np]
    ELSE IF advances >= Len(players)
    THEN [diverged |-> TRUE, last_move |-> new_last_move, next_player |-> np]
    ELSE RotationLoop_no_clear(get_next_player_in_rotation(np), new_last_move,
                               new_last_player, advances + 1)

\* Mutant: one player without cards is skipped, and no more.
RotationLoop_skip_one(np, new_last_move, new_last_player, advances) ==
    IF ~HandIsEmpty(get_player(np)[1])
    THEN [diverged |-> FALSE, last_move |-> new_last_move, next_player |-> np]
    ELSE LET nxt == get_next_player_in_rotation(np)
         IN  [diverged |-> FALSE,
              last_move |-> IF nxt = LastPlayerOrInvalid(new_last_player)
                            THEN Some(Pass) ELSE new_last_move,
              next_player |-> nxt]

\* The while loop of get_last_move_and_new_player. It reads the hands of
\* the Round the move is submitted to. After as many advances as there are
\* seats every seat has been found empty and the loop never ends: diverged.
RECURSIVE RotationLoop(_, _, _, _)
RotationLoop(np, new_last_move, new_last_player, advances) ==
    IF ~HandIsEmpty(get_player(np)[1])
    THEN [diverged |-> FALSE, last_move |-> new_last_move, next_player |-> np]
    ELSE IF advances >= Len(players)
    THEN [diverged |-> TRUE, last_move |-> new_last_move, next_player |-> np]
    ELSE LET nxt == get_next_player_in_rotation(np)
         IN  RotationLoop(nxt,
                          IF nxt = LastPlayerOrInvalid(new_last_player)
                          THEN Some(Pass) ELSE new_last_move,
                          new_last_player, advances + 1)

\* Mutant: a Pass takes the place of the standing move.
get_last_move_and_new_player_no_carry(user_id, hand, new_last_player) ==
    LET first == get_next_player_in_rotation(user_id)
        cleared == IF first = LastPlayerOrInvalid(new_last_player)
                   THEN Some(Pass) ELSE hand
    IN  RotationLoop(first, cleared, new_last_player, 0)

\* Mutant: the standing move is carried over whatever the hand.
get_last_move_and_new_player_keep(user_id, hand, new_last_player) ==
    LET first == get_next_player_in_rotation(user_id)
        cleared == IF first = LastPlayerOrInvalid(new_last_player)
                   THEN Some(Pass) ELSE last_move
    IN  RotationLoop(first, cleared, new_last_player, 0)

\* Mutant: the seat after the acting player is not compared with the last
\* player.
get_last_move_and_new_player_no_first_clear(user_id, hand, new_last_player) ==
    LET first == get_next_player_in_rotation(user_id)
        carried == IF hand = Some(Pass) THEN last_move ELSE hand
    IN  RotationLoop(first, carried, new_last_player, 0)

\* Round::get_last_move_and_new_player
get_last_move_and_new_player(user_id, hand, new_last_player) ==
    LET first == get_next_player_in_rotation(user_id)
        carried == IF hand = Some(Pass) THEN last_move ELSE hand
        cleared == IF first = LastPlayerOrInvalid(new_last_player)
                   THEN Some(Pass) ELSE carried
    IN  RotationLoop(first, cleared, new_last_player, 0)

\* Mutant: the rank order alone is reversed.
get_updated_suit_and_rank_order_rank_only(hand) ==
    LET h == IF hand = None THEN Pass ELSE hand[1]
    IN  IF /\ ruleset.reversals_enabled
           /\ h.kind = "FiveCardTrick"
           /\ h.trick_type = "FourOfAKind"
        THEN <<suit_order, Reverse(rank_order)>>
        ELSE <<suit_order, rank_order>>

\* Mutant: five of a kind reverses the orders too.
get_updated_suit_and_rank_order_five_too(hand) ==
    LET h == IF hand = None THEN Pass ELSE hand[1]
    IN  IF /\ ruleset.reversals_enabled
           /\ h.kind = "FiveCardTrick"
           /\ h.trick_type \in {"FourOfAKind", "FiveOfAKind"}
        THEN <<Reverse(suit_order), Reverse(rank_order)>>
        ELSE <<suit_order, rank_order>>

\* Mutant: a four of a kind sets the reversed default orders, whatever the
\* orders were.
get_updated_suit_and_rank_order_set(hand) ==
    LET h == IF hand = None THEN Pass ELSE hand[1]
    IN  IF /\ ruleset.reversals_enabled
           /\ h.kind = "FiveCardTrick"
           /\ h.trick_type = "FourOfAKind"
        THEN <<Reverse(DEFAULT_SUIT_ORDER), Reverse(DEFAULT_RANK_ORDER)>>
        ELSE <<suit_order, rank_order>>

\* Round::get_updated_suit_and_rank_order
get_updated_suit_and_rank_order(hand) ==
    LET h == IF hand = None THEN Pass ELSE hand[1]
    IN  IF /\ ruleset.reversals_enabled
           /\ h.kind = "FiveCardTrick"
           /\ h.trick_type = "FourOfAKind"
        THEN <<Reverse(suit_order), Reverse(rank_order)>>
        ELSE <<suit_order, rank_order>>

\* What a submit_move call that returns no Round leaves: the Round as it is.
Rejected(r) ==
    [result |-> r, players |-> players, next_player |-> next_player,
     last_move |-> last_move, last_player |-> last_player,
     suit_order |-> suit_order, rank_order |-> rank_order]

\* Mutant: the last player is never set.
NewLastPlayer_kept(user_id, hand) == last_player

\* Mutant: a Pass claims the table too.
NewLastPlayer_always_mover(user_id, hand) == Some(user_id)

\* submit_move: the last player to have played, after this move.
NewLastPlayer(user_id, hand) ==
    IF hand = Some(Pass) THEN last_player ELSE Some(user_id)

\* Mutant: the next player is kept when fewer than two players hold cards.
Accept_no_end(user_id, hand, player) ==
    LET new_players == get_updated_players(player)
        new_last_player == NewLastPlayer(user_id, hand)
        rot == get_last_move_and_new_player(user_id, hand, new_last_player)
        orders == get_updated_suit_and_rank_order(hand)
    IN  IF rot.diverged THEN Rejected("Diverge")
        ELSE [result |-> "Ok", players |-> new_players,
              next_player |-> Some(rot.next_player),
              last_move |-> rot.last_move,
              last_player |-> new_last_player,
              suit_order |-> orders[1], rank_order |-> orders[2]]

\* submit_move once the player's cards are removed: the Round returned.
Accept(user_id, hand, player) ==
    LET new_players == get_updated_players(player)
        new_last_player == NewLastPlayer(user_id, hand)
        rot == get_last_move_and_new_player(user_id, hand, new_last_player)
        output_next_player ==
            IF Len(get_players_still_in(new_players)) > 1
            THEN Some(rot.next_player) ELSE None
        orders == get_updated_suit_and_rank_order(hand)
    IN  IF rot.diverged THEN Rejected("Diverge")
        ELSE [result |-> "Ok", players |-> new_players,
              next_player |-> output_next_player,
              last_move |-> rot.last_move,
              last_player |-> new_last_player,
              suit_order |-> orders[1], rank_order |-> orders[2]]

\* Mutant: a hand is compared with a Pass on the table too.
RankingError_pass_compared(cards, hand) ==
    IF last_move = None THEN check_starting_move(cards)
    ELSE IF hand # Some(Pass) /\ ~hand_beats_last_move(hand[1])
         THEN Some("HandNotHighEnough")
    ELSE None

\* Mutant: a Pass on a Pass is turned away.
RankingError_no_second_pass(cards, hand) ==
    IF last_move = None THEN check_starting_move(cards)
    ELSE IF last_move = Some(Pass) /\ hand = Some(Pass)
         THEN Some("HandNotHighEnough")
    ELSE IF /\ last_move # Some(Pass)
            /\ hand # Some(Pass)
            /\ ~hand_beats_last_move(hand[1])
         THEN Some("HandNotHighEnough")
    ELSE None

\* submit_move, the checks of a classified hand against the table: the
\* starting-move checks before the first move, the beat check after it.
RankingError(cards, hand) ==
    IF last_move = None THEN check_starting_move(cards)
    ELSE IF /\ last_move # Some(Pass)
            /\ hand # Some(Pass)
            /\ ~hand_beats_last_move(hand[1])
         THEN Some("HandNotHighEnough")
    ELSE None

\* Mutant: the cards are removed in place, and those removed before a
\* missing card is met stay removed when the call fails.
PlayAndAdvance_in_place(user_id, cards, hand) ==
    IF get_player(user_id) = None THEN Rejected("Panic")
    ELSE LET p == get_player(user_id)[1]
             played == play_move(p, cards)
             partly == Player(p.id, p.hand (-) BagOfSeq(
                           [i \in 1..Len(cards) |-> ToCard(cards[i])]))
         IN  IF played = None
             THEN [Rejected("PlayerDoesntHaveCard") EXCEPT
                      !.players = get_updated_players(partly)]
             ELSE Accept(user_id, hand, played[1])

\* Mutant: a card that is not held is let through, the hand left as it is.
PlayAndAdvance_unchecked(user_id, cards, hand) ==
    IF get_player(user_id) = None THEN Rejected("Panic")
    ELSE LET p == get_player(user_id)[1]
             played == play_move(p, cards)
         IN  IF played = None THEN Accept(user_id, hand, p)
             ELSE Accept(user_id, hand, played[1])

\* Mutant: the Round returned is made with the hand the player had before
\* the move.
PlayAndAdvance_cards_kept(user_id, cards, hand) ==
    IF get_player(user_id) = None THEN Rejected("Panic")
    ELSE LET p == get_player(user_id)[1]
         IN  IF play_move(p, cards) = None
             THEN Rejected("PlayerDoesntHaveCard")
             ELSE Accept(user_id, hand, p)

\* submit_move from the removal of the player's cards on.
PlayAndAdvance(user_id, cards, hand) ==
    IF get_player(user_id) = None THEN Rejected("Panic")
    ELSE LET played == play_move(get_player(user_id)[1], cards)
         IN  IF played = None THEN Rejected("PlayerDoesntHaveCard")
             ELSE Accept(user_id, hand, played[1])

\* Mutant: the hand is classified before the turn is checked.
submit_move_turn_check_late(user_id, cards) ==
    IF get_next_player = None THEN Rejected("Panic")
    ELSE IF Build(cards) = None THEN Rejected("InvalidHand")
    ELSE IF user_id # get_next_player[1] THEN Rejected("NotCurrentPlayer")
    ELSE IF RankingError(cards, Build(cards)) # None
         THEN Rejected(RankingError(cards, Build(cards))[1])
    ELSE PlayAndAdvance(user_id, cards, Build(cards))

\* Mutant: the starting-move checks come before the hand is classified.
submit_move_start_check_first(user_id, cards) ==
    IF get_next_player = None THEN Rejected("Panic")
    ELSE IF user_id # get_next_player[1] THEN Rejected("NotCurrentPlayer")
    ELSE IF last_move = None /\ check_starting_move(cards) # None
         THEN Rejected(check_starting_move(cards)[1])
    ELSE IF Build(cards) = None THEN Rejected("InvalidHand")
    ELSE IF RankingError(cards, Build(cards)) # None
         THEN Rejected(RankingError(cards, Build(cards))[1])
    ELSE PlayAndAdvance(user_id, cards, Build(cards))

\* Mutant: a Round without a next player takes the caller for it.
submit_move_no_expect(user_id, cards) ==
    IF get_next_player # None /\ user_id # get_next_player[1]
    THEN Rejected("NotCurrentPlayer")
    ELSE IF Build(cards) = None THEN Rejected("InvalidHand")
    ELSE IF RankingError(cards, Build(cards)) # None
         THEN Rejected(RankingError(cards, Build(cards))[1])
    ELSE PlayAndAdvance(user_id, cards, Build(cards))

\* Mutant: the sender is not compared with the next player.
submit_move_any_sender(user_id, cards) ==
    IF get_next_player = None THEN Rejected("Panic")
    ELSE IF Build(cards) = None THEN Rejected("InvalidHand")
    ELSE IF RankingError(cards, Build(cards)) # None
         THEN Rejected(RankingError(cards, Build(cards))[1])
    ELSE PlayAndAdvance(user_id, cards, Build(cards))

\* Mutant: the player's cards are looked for before the hand is ranked.
submit_move_held_check_first(user_id, cards) ==
    IF get_next_player = None THEN Rejected("Panic")
    ELSE IF user_id # get_next_player[1] THEN Rejected("NotCurrentPlayer")
    ELSE LET built == Build(cards)
         IN  IF built = Some(ComparisonPanic) THEN Rejected("Panic")
             ELSE IF built = None THEN Rejected("InvalidHand")
             ELSE IF play_move(get_player(user_id)[1], cards) = None
                  THEN Rejected("PlayerDoesntHaveCard")
             ELSE IF RankingError(cards, built) # None
                  THEN Rejected(RankingError(cards, built)[1])
             ELSE PlayAndAdvance(user_id, cards, built)

\* Round::submit_move: the Round returned (result "Ok"), the SubmitError, or
\* "Panic" where an expect() fails or the build faults.
submit_move(user_id, cards) ==
    IF get_next_player = None THEN Rejected("Panic")
    ELSE IF user_id # get_next_player[1] THEN Rejected("NotCurrentPlayer")
    ELSE LET built == Build(cards)
         IN  IF built = Some(ComparisonPanic) THEN Rejected("Panic")
             ELSE IF built = None THEN Rejected("InvalidHand")
             ELSE IF RankingError(cards, built) # None
                  THEN Rejected(RankingError(cards, built)[1])
             ELSE PlayAndAdvance(user_id, cards, built)

-----------------------------------------------------------------------------
(* The rounds and submissions explored *)

\* How many of the deals of DealList a round may start from.
NumDeals == 9

\* The longest card list drawn freely from Universe.
MaxSeqLen == 2

C(rank, suit) == Card(rank, suit)

P(rank, suit) == PlayedCard(rank, suit, FALSE, FALSE)

Ids == <<"a", "b", "c", "d">>

\* Deals: the cards each seat is dealt, in seating order. The fifth has two
\* holders of the lowest card and the sixth none; the seventh and eighth
\* hold the five-card tricks, and the ninth a four of a kind for each player.
DealList ==
    << << <<C("Three", "Clubs"), C("Six", "Clubs")>>,
          <<C("Four", "Clubs")>> >>,
       << <<C("Three", "Clubs"), C("Three", "Hearts"), C("Six", "Clubs")>>,
          <<C("Four", "Clubs"), C("Four", "Clubs")>>,
          <<C("Five", "Clubs")>> >>,
       << <<C("Three", "Clubs"), C("Three", "Clubs"), C("Three", "Clubs"),
            C("Three", "Clubs"), C("Four", "Clubs"), C("Five", "Clubs")>>,
          <<C("Four", "Clubs"), C("Six", "Clubs")>> >>,
       << <<C("Four", "Clubs")>>,
          <<C("Five", "Clubs"), C("Six", "Clubs")>>,
          <<C("Three", "Clubs"), C("Four", "Clubs")>>,
          <<C("Three", "Hearts")>> >>,
       << <<C("Five", "Clubs")>>,
          <<C("Three", "Clubs"), C("Four", "Clubs")>>,
          <<C("Three", "Clubs")>> >>,
       << <<C("Four", "Clubs")>>,
          <<C("Five", "Clubs")>> >>,
       << <<C("Three", "Clubs"), C("Three", "Clubs"), C("Three", "Clubs"),
            C("Three", "Clubs"), C("Three", "Clubs"), C("Four", "Clubs"),
            C("Four", "Clubs")>>,
          <<C("Five", "Clubs")>> >>,
       << <<C("Three", "Clubs"), C("Four", "Clubs"), C("Five", "Clubs"),
            C("Six", "Clubs"), C("Seven", "Clubs"), C("Seven", "Hearts"),
            C("Eight", "Clubs")>>,
          <<C("Four", "Clubs")>> >>,
       << <<C("Three", "Clubs"), C("Three", "Clubs"), C("Three", "Clubs"),
            C("Three", "Clubs"), C("Four", "Clubs"), C("Five", "Clubs")>>,
          <<C("Four", "Clubs"), C("Four", "Clubs"), C("Four", "Clubs"),
            C("Four", "Clubs"), C("Six", "Clubs")>> >>,
       << <<C("Three", "Clubs"), C("Five", "Clubs")>>,
          <<C("Four", "Clubs"), C("Six", "Clubs")>>,
          <<C("Four", "Clubs")>> >> >>

Deals == {DealList[i] : i \in 1..(IF NumDeals < Len(DealList)
                                  THEN NumDeals ELSE Len(DealList))}

\* Round::new is given the ruleset: DEFAULT_RULESET, and for two of the deals
\* that hold a four of a kind also the ruleset without reversals.
DEFAULT_RULESET == [reversals_enabled |-> TRUE, flush_precedence |-> "Rank"]

NoReversalDeals == {DealList[3], DealList[7]}

Rulesets(deal) ==
    {DEFAULT_RULESET} \cup
    (IF deal \in NoReversalDeals
     THEN {[reversals_enabled |-> FALSE, flush_precedence |-> "Rank"]}
     ELSE {})

PlayersOf(deal) ==
    [i \in 1..Len(deal) |-> Player(Ids[i], BagOfSeq(deal[i]))]

\* The ids a call may name: the players' and one that is no player's.
UserIds == {players[i].id : i \in 1..Len(players)} \cup {"zed"}

Universe ==
    {P("Three", "Clubs"), P("Three", "Hearts"), P("Four", "Clubs"),
     P("Five", "Clubs"), P("Six", "Clubs")}

\* Card lists of other lengths: the five-card tricks (four of a kind, five
\* of a kind, full house, straight flush, straight, flush), a prial, and
\* lists that form no hand.
ExtraPlays ==
    { <<P("Four", "Clubs"), P("Three", "Clubs"), P("Three", "Clubs"),
        P("Three", "Clubs"), P("Three", "Clubs")>>,
      <<P("Three", "Clubs"), P("Three", "Clubs"), P("Three", "Clubs"),
        P("Three", "Clubs"), P("Three", "Clubs")>>,
      <<P("Four", "Clubs"), P("Four", "Clubs"), P("Four", "Clubs"),
        P("Four", "Clubs"), P("Six", "Clubs")>>,
      <<P("Four", "Clubs"), P("Three", "Clubs"), P("Four", "Clubs"),
        P("Three", "Clubs"), P("Three", "Clubs")>>,
      <<P("Seven", "Clubs"), P("Three", "Clubs"), P("Four", "Clubs"),
        P("Five", "Clubs"), P("Six", "Clubs")>>,
      <<P("Three", "Clubs"), P("Four", "Clubs"), P("Five", "Clubs"),
        P("Six", "Clubs"), P("Seven", "Hearts")>>,
      <<P("Three", "Clubs"), P("Four", "Clubs"), P("Five", "Clubs"),
        P("Six", "Clubs"), P("Eight", "Clubs")>>,
      <<P("Three", "Clubs"), P("Three", "Clubs"), P("Three", "Clubs")>>,
      <<P("Three", "Clubs"), P("Three", "Clubs"), P("Three", "Clubs"),
        P("Three", "Clubs")>> }

Submissions ==
    UNION {[1..n -> Universe] : n \in 0..MaxSeqLen} \cup ExtraPlays

-----------------------------------------------------------------------------
(* Specification *)

\* A fresh Round: Round::new(players, None, None, None, orders, ruleset).
Init ==
    /\ \E deal \in Deals :
          /\ players = PlayersOf(deal)
          /\ ruleset \in Rulesets(deal)
    /\ next_player = None
    /\ last_move = None
    /\ last_player = None
    /\ suit_order = DEFAULT_SUIT_ORDER
    /\ rank_order = DEFAULT_RANK_ORDER
    /\ result = "Fresh"
    /\ call = None
    /\ build_cards = << >>
    /\ build_hand = Some(NotBuilt)
    /\ cmp_cards = << >>
    /\ cmp_result = "NotCompared"
    /\ fours = 0

\* The hand built is a FourOfAKind trick.
IsFourOfAKind(hand) ==
    /\ hand # None
    /\ hand[1].kind = "FiveCardTrick"
    /\ hand[1].trick_type = "FourOfAKind"

\* What a call of submit_move leaves: the Round returned, or the Round it
\* was made on when none is returned, and the outcome of the call.
Returned(user_id, cards, out) ==
    /\ result' = out.result
    /\ call' = IF out.result = "Ok"
               THEN Some([user |-> user_id, cards |-> cards])
               ELSE None
    /\ players' = out.players
    /\ next_player' = out.next_player
    /\ last_move' = out.last_move
    /\ last_player' = out.last_player
    /\ suit_order' = out.suit_order
    /\ rank_order' = out.rank_order
    /\ fours' = IF out.result = "Ok" /\ IsFourOfAKind(Build(cards))
                THEN fours + 1 ELSE fours
    /\ UNCHANGED <<ruleset, build_cards, build_hand, cmp_cards, cmp_result>>

\* One call of submit_move on the current Round; the caller keeps the Round
\* returned, or the Round it had when the call returns none.
Submit ==
    \E user_id \in UserIds, cards \in Submissions :
        \E out \in {submit_move(user_id, cards)} :
            /\ result' = out.result
            /\ call' = IF out.result = "Ok"
                       THEN Some([user |-> user_id, cards |-> cards])
                       ELSE None
            /\ players' = out.players
            /\ next_player' = out.next_player
            /\ last_move' = out.last_move
            /\ last_player' = out.last_player
            /\ suit_order' = out.suit_order
            /\ rank_order' = out.rank_order
            /\ fours' = IF out.result = "Ok" /\ IsFourOfAKind(Build(cards))
                        THEN fours + 1 ELSE fours
            /\ UNCHANGED <<ruleset, build_cards, build_hand,
                           cmp_cards, cmp_result>>

Next == Submit

Spec == Init /\ [][Next]_vars

-----------------------------------------------------------------------------
(* Rounds played on by players who lead when the table is cleared *)

\* The call is a Pass on a cleared table that returns a Round.
LeadPass(cards, out) ==
    /\ last_move = Some(Pass)
    /\ cards = << >>
    /\ out.result = "Ok"

\* The card lists of the calls: every card that is dealt can be played alone.
LeadingSubmissions ==
    Submissions \cup
    {<<P("Seven", "Clubs")>>, <<P("Seven", "Hearts")>>, <<P("Eight", "Clubs")>>}

\* One call of submit_move, by callers of whom none passes on a cleared
\* table.
SubmitLeading ==
    \E user_id \in UserIds, cards \in LeadingSubmissions :
        \E out \in {submit_move(user_id, cards)} :
            /\ ~LeadPass(cards, out)
            /\ Returned(user_id, cards, out)

\* The passes and the single cards among the card lists.
ShortSubmissions == {cards \in LeadingSubmissions : Len(cards) <= 1}

\* A call with one of the card lists that returns a Round.
AcceptedWith(card_lists) ==
    \E user_id \in UserIds, cards \in card_lists :
        /\ call' = Some([user |-> user_id, cards |-> cards])
        /\ \E out \in {submit_move(user_id, cards)} :
              /\ out.result = "Ok"
              /\ ~LeadPass(cards, out)
              /\ Returned(user_id, cards, out)

\* A call that returns a Round: the short card lists are tried first.
AcceptedMove ==
    AcceptedWith(ShortSubmissions) \/ AcceptedWith(LeadingSubmissions)

NextLeading == SubmitLeading

\* The callers go on calling until a move is accepted.
SpecLeading == Init /\ [][NextLeading]_vars /\ WF_vars(AcceptedMove)

-----------------------------------------------------------------------------
(* Rounds made by Round::new from any arguments *)

\* The cards a seat may be given: none, one card, or two.
HandChoices ==
    { << >>, <<C("Four", "Clubs")>>, <<C("Three", "Clubs"), C("Five", "Clubs")>> }

\* Two or three seats, each with any of the hands.
PlayerLists ==
    UNION {[1..n -> HandChoices] : n \in {2, 3}}

\* The moves Round::new may be told were the last.
LastMoveChoices ==
    {None, Some(Pass), Some(Single(P("Four", "Clubs")))}

\* The players Round::new may be told are next or were last: none, or one
\* of the first three ids.
PlayerChoices == {None} \cup {Some(Ids[i]) : i \in {1, 2, 3}}

\* Round::new(players, next_player, last_move, last_player, orders,
\* ruleset) with any of the arguments above: the constructor keeps what it
\* is given.
InitNew ==
    /\ \E deal \in PlayerLists : players = PlayersOf(deal)
    /\ next_player \in PlayerChoices
    /\ last_move \in LastMoveChoices
    /\ last_player \in PlayerChoices
    /\ suit_order = DEFAULT_SUIT_ORDER
    /\ rank_order = DEFAULT_RANK_ORDER
    /\ ruleset = DEFAULT_RULESET
    /\ result = "Fresh"
    /\ call = None
    /\ build_cards = << >>
    /\ build_hand = Some(NotBuilt)
    /\ cmp_cards = << >>
    /\ cmp_result = "NotCompared"
    /\ fours = 0

SpecNew == InitNew /\ [][Next]_vars

-----------------------------------------------------------------------------
(* Hand::build on its own: the card lists it is given *)

\* How many cards of FullDeck the lists are drawn from.
DeckSize == 11

\* The longest card list handed to Hand::build.
MaxHandLen == 6

\* The cards the lists are made of, as <<rank, suit>>: the lowest straight
\* (Three to Seven), the highest (Jack to Two), and a second suit.
FullDeck ==
    << <<"Three", "Clubs">>, <<"Four", "Clubs">>, <<"Five", "Clubs">>,
       <<"Six", "Clubs">>, <<"Seven", "Clubs">>, <<"Seven", "Hearts">>,
       <<"Jack", "Clubs">>, <<"Queen", "Clubs">>, <<"King", "Clubs">>,
       <<"Ace", "Clubs">>, <<"Two", "Clubs">>, <<"Three", "Hearts">>,
       <<"Two", "Hearts">>, <<"Four", "Hearts">> >>

BuildDeck == SubSeq(FullDeck, 1, DeckSize)

\* The lists longer than five are drawn from the first cards of the deck.
LongListDeck == SubSeq(FullDeck, 1, 3)

\* The nondecreasing sequences of n indices of 1..k: one per multiset.
RECURSIVE IndexLists(_, _)
IndexLists(n, k) ==
    IF n = 0 THEN {<< >>}
    ELSE UNION {{Append(l, j) :
                    j \in (IF l = << >> THEN 1 ELSE l[Len(l)])..k} :
                l \in IndexLists(n - 1, k)}

\* Card::new(rank, suit, reversed) for each card of a list: "Unreversed",
\* "Reversed", or "Mixed" where only the first card is reversed.
FlagModes == {"Unreversed", "Reversed", "Mixed"}

CardList(deck, l, mode) ==
    [i \in 1..Len(l) |->
        PlayedCard(deck[l[i]][1], deck[l[i]][2],
                   mode = "Reversed" \/ (mode = "Mixed" /\ i = 1), FALSE)]

\* The deck a list of n cards is drawn from.
DeckFor(n) == IF n <= 5 THEN BuildDeck ELSE LongListDeck

\* The card list of the indices l, in their order or backwards.
BuildInput(l, mode, backwards) ==
    IF backwards THEN Reverse(CardList(DeckFor(Len(l)), l, mode))
    ELSE CardList(DeckFor(Len(l)), l, mode)

\* A card list is made and nothing built from it yet: any multiset of up to
\* five cards of the deck or a longer one of a few cards, in either order,
\* with each setting of the reversed flags.
InitBuild ==
    /\ players = PlayersOf(DealList[1])
    /\ ruleset = DEFAULT_RULESET
    /\ next_player = None
    /\ last_move = None
    /\ last_player = None
    /\ suit_order = DEFAULT_SUIT_ORDER
    /\ rank_order = DEFAULT_RANK_ORDER
    /\ result = "Fresh"
    /\ call = None
    /\ \E n \in 0..MaxHandLen :
          \E l \in IndexLists(n, Len(DeckFor(n))) :
              \E mode \in FlagModes, backwards \in BOOLEAN :
                  build_cards = BuildInput(l, mode, backwards)
    /\ build_hand = Some(NotBuilt)
    /\ cmp_cards = << >>
    /\ cmp_result = "NotCompared"
    /\ fours = 0

\* One call of Hand::build on the list.
BuildHand ==
    /\ build_hand = Some(NotBuilt)
    /\ build_hand' = Build(build_cards)
    /\ UNCHANGED <<round_vars, result, call, build_cards,
                   cmp_cards, cmp_result, fours>>

NextBuild == BuildHand

SpecBuild == InitBuild /\ [][NextBuild]_vars

-----------------------------------------------------------------------------
(* The comparison of cards on its own: the cards it is given *)

\* Card::new(rank, suit, reversed), the suit in the default ordering context.
NewCard(rank, suit, reversed) ==
    [rank |-> rank, suit |-> suit, reversed |-> reversed]

\* Every card of one deck, unreversed and reversed.
AllCards ==
    {NewCard(DEFAULT_RANK_ORDER[r], DEFAULT_SUIT_ORDER[s], reversed) :
        r \in 1..Len(DEFAULT_RANK_ORDER), s \in 1..Len(DEFAULT_SUIT_ORDER),
        reversed \in BOOLEAN}

\* Two cards are made and not compared yet.
InitCompare ==
    /\ players = PlayersOf(DealList[1])
    /\ ruleset = DEFAULT_RULESET
    /\ next_player = None
    /\ last_move = None
    /\ last_player = None
    /\ suit_order = DEFAULT_SUIT_ORDER
    /\ rank_order = DEFAULT_RANK_ORDER
    /\ result = "Fresh"
    /\ call = None
    /\ build_cards = << >>
    /\ build_hand = Some(NotBuilt)
    /\ \E self \in AllCards, other \in AllCards : cmp_cards = <<self, other>>
    /\ cmp_result = "NotCompared"
    /\ fours = 0

\* One comparison self.partial_cmp(other): an ordering, or the fault.
CompareCards ==
    /\ cmp_result = "NotCompared"
    /\ cmp_result' = CardPartialCmp(cmp_cards[1], cmp_cards[2])
    /\ UNCHANGED <<round_vars, result, call, build_cards, build_hand,
                   cmp_cards, fours>>

NextCompare == CompareCards

SpecCompare == InitCompare /\ [][NextCompare]_vars

-----------------------------------------------------------------------------
(* Vocabulary of the properties *)

SubmitErrors ==
    {"FirstRoundPass", "FirstHandMustContainLowestCard", "HandNotHighEnough",
     "NotCurrentPlayer", "InvalidHand", "PlayerDoesntHaveCard"}

\* The seat of the player with this id.
SeatOf(id) == CHOOSE i \in 1..Len(players) : players[i].id = id

\* The cards of a submission as a bag of held cards.
Submitted(cards) == BagOfSeq([i \in 1..Len(cards) |-> ToCard(cards[i])])

\* The submission has the card of rank rank_order[0] and suit suit_order[0].
HasLowestCard(cards) ==
    \E i \in 1..Len(cards) :
        ToCard(cards[i]) = Card(rank_order[1], suit_order[1])

\* The comparator's verdict on a classified hand against the standing move.
Beats(hand) ==
    compare_hands(last_move[1], hand, ruleset.flush_precedence,
                  suit_order, rank_order)

\* The hand passes the checks made before the cards are looked for in the
\* player's hand.
PassesRanking(cards, hand) ==
    IF last_move = None THEN cards # << >> /\ HasLowestCard(cards)
    ELSE last_move = Some(Pass) \/ hand = Pass \/ Beats(hand)

\* Seats holding cards in a player list.
Holding(ps) == {i \in 1..Len(ps) : DOMAIN ps[i].hand # {}}

\* The seat d places after seat k, wrapping from the last seat to the first.
SeatAfter(k, d, n) == ((k - 1 + d) % n) + 1

-----------------------------------------------------------------------------
(* C1 *)

\* C1 as stated: in every Round, whatever the cards, a call whose user id
\* differs from get_next_player() returns NotCurrentPlayer.
C1_AnyRoundNotCurrentPlayer ==
    \A user_id \in UserIds, cards \in Submissions :
        Some(user_id) # get_next_player
            => submit_move(user_id, cards).result = "NotCurrentPlayer"

\* C1 amended: in every Round whose get_next_player() is Some(p), before and
\* after the first move and whatever the cards, a call whose user id differs
\* from p returns NotCurrentPlayer.
C1_NotCurrentPlayer ==
    get_next_player # None =>
        \A user_id \in UserIds, cards \in Submissions :
            user_id # get_next_player[1]
                => submit_move(user_id, cards).result = "NotCurrentPlayer"

\* An out-of-turn call was rejected after the first move.
C1_Witness ==
    /\ result = "NotCurrentPlayer"
    /\ last_move # None
    /\ get_next_player # None

-----------------------------------------------------------------------------
(* C2 *)

\* C2: against a standing move that is not a Pass, a hand of the current
\* player that is not a Pass is rejected with HandNotHighEnough unless the
\* comparator says it beats the standing move, and is accepted only if it
\* does; against a standing Single only a strictly higher Single is
\* accepted, and the standing card itself is rejected.
C2_MustBeatLastMove ==
    (get_next_player # None /\ last_move # None /\ last_move # Some(Pass)) =>
        \A cards \in Submissions :
            (Build(cards) # None /\ Build(cards) # Some(Pass)) =>
                \A hand \in {Build(cards)[1]},
                   out \in {submit_move(get_next_player[1], cards)},
                   beats \in {Beats(Build(cards)[1])} :
                    /\ ~beats <=> out.result = "HandNotHighEnough"
                    /\ out.result = "Ok" => beats
                    /\ last_move[1].kind = "Single" =>
                        /\ out.result = "Ok" =>
                            /\ hand.kind = "Single"
                            /\ CardAbove(hand.cards[1], last_move[1].cards[1],
                                         suit_order, rank_order)
                        /\ cards = last_move[1].cards
                            => out.result = "HandNotHighEnough"

\* A hand was rejected as not high enough against a standing Single.
C2_Witness ==
    /\ result = "HandNotHighEnough"
    /\ last_move # None
    /\ last_move[1].kind = "Single"

-----------------------------------------------------------------------------
(* C3 *)

\* C3: before the first move an empty submission by the current player is
\* rejected with FirstRoundPass, and no accepted first move is empty.
C3_FirstRoundPass ==
    (get_next_player # None /\ last_move = None) =>
        /\ submit_move(get_next_player[1], << >>).result = "FirstRoundPass"
        /\ \A cards \in Submissions :
            submit_move(get_next_player[1], cards).result = "Ok"
                => cards # << >>

\* The starting player tried to pass.
C3_Witness == result = "FirstRoundPass" /\ last_move = None

-----------------------------------------------------------------------------
(* C4 *)

\* C4: before the first move a non-empty classified submission by the
\* current player without the card of rank rank_order[0] and suit
\* suit_order[0] is rejected with FirstHandMustContainLowestCard, and every
\* accepted first move holds that card.
C4_FirstHandMustContainLowestCard ==
    (get_next_player # None /\ last_move = None) =>
        \A cards \in Submissions :
            \A out \in {submit_move(get_next_player[1], cards)} :
                /\ (cards # << >> /\ Build(cards) # None
                        /\ ~HasLowestCard(cards))
                    => out.result = "FirstHandMustContainLowestCard"
                /\ out.result = "Ok" => HasLowestCard(cards)

\* A first move without the lowest card was rejected.
C4_Witness ==
    result = "FirstHandMustContainLowestCard" /\ last_move = None

-----------------------------------------------------------------------------
(* C5 *)

\* C5: cards of the current player that Hand::build cannot classify are
\* rejected with InvalidHand, after the first move and before it, there
\* whether or not they include the lowest card.
C5_InvalidHand ==
    get_next_player # None =>
        \A cards \in Submissions :
            Build(cards) = None
                => submit_move(get_next_player[1], cards).result
                       = "InvalidHand"

\* Unclassifiable cards were rejected before the first move.
C5_Witness == result = "InvalidHand" /\ last_move = None

-----------------------------------------------------------------------------
(* C6 *)

\* C6: a submission of the current player that passes the hand and ranking
\* checks is rejected with PlayerDoesntHaveCard exactly when the player's
\* hand does not hold the submitted cards one for one (a card not held, or
\* held fewer times than submitted), and is accepted otherwise.
C6_PlayerDoesntHaveCard ==
    get_next_player # None =>
        \A cards \in Submissions :
            (Build(cards) # None /\ PassesRanking(cards, Build(cards)[1])) =>
                LET out == submit_move(get_next_player[1], cards)
                    held == players[SeatOf(get_next_player[1])].hand
                IN  IF Submitted(cards) \sqsubseteq held
                    THEN out.result = "Ok"
                    ELSE out.result = "PlayerDoesntHaveCard"

\* A submission that passed the checks was rejected for a card not held,
\* before the first move.
C6_Witness == result = "PlayerDoesntHaveCard" /\ last_move = None

-----------------------------------------------------------------------------
(* C7 *)

\* C7: a call that returns a SubmitError leaves the Round as it was
\* (players' hands, next_player, last_move, last_player, suit_order,
\* rank_order, ruleset); the same submission then meets the same Round, on
\* which it is rejected again.
C7_RejectionChangesNothing ==
    /\ [][result' \in SubmitErrors => UNCHANGED round_vars]_vars
    /\ [](result \in SubmitErrors =>
            \E user_id \in UserIds, cards \in Submissions :
                submit_move(user_id, cards).result = result)

\* A call was rejected on a Round with a standing move.
C7_Witness ==
    /\ result \in SubmitErrors
    /\ last_move # None
    /\ last_move # Some(Pass)
    /\ last_player # None

-----------------------------------------------------------------------------
(* C8 *)

\* C8: an accepted move removes exactly the submitted cards, one for one,
\* from the acting player's hand (none for a Pass) and leaves every other
\* player's hand and every player's id and seat as they were.
C8_OnlySubmittedCardsLeave ==
    [][result' = "Ok" =>
          /\ Len(players') = Len(players)
          /\ \A i \in 1..Len(players) :
                /\ players'[i].id = players[i].id
                /\ players'[i].hand =
                      IF players[i].id = call'[1].user
                      THEN players[i].hand (-) Submitted(call'[1].cards)
                      ELSE players[i].hand
                /\ players[i].id = call'[1].user =>
                      BagCardinality(players'[i].hand) =
                          BagCardinality(players[i].hand)
                              - Len(call'[1].cards)
      ]_vars

\* A pair was accepted.
C8_Witness ==
    /\ result = "Ok"
    /\ call # None
    /\ Len(call[1].cards) = 2

-----------------------------------------------------------------------------
(* C9 *)

\* C9: after an accepted move last_player is the acting player if the hand
\* is not a Pass, and is what it was if the hand is a Pass.
C9_LastPlayer ==
    [][result' = "Ok" =>
          last_player' = IF call'[1].cards = << >> THEN last_player
                         ELSE Some(call'[1].user)
      ]_vars

\* A Pass was accepted and last_player still names another player.
C9_Witness ==
    /\ result = "Ok"
    /\ call # None
    /\ call[1].cards = << >>
    /\ last_player # None
    /\ last_player # Some(call[1].user)

-----------------------------------------------------------------------------
(* C10 *)

\* C10: after an accepted move that leaves at least two players holding
\* cards, next_player is the first player after the acting player, in
\* seating order wrapped from the last seat to the first, whose hand is not
\* empty.
C10_NextPlayerSkipsEmptyHands ==
    [][(result' = "Ok" /\ Cardinality(Holding(players')) >= 2) =>
          LET n == Len(players)
              k == SeatOf(call'[1].user)
              d == CHOOSE d \in 1..n :
                      /\ SeatAfter(k, d, n) \in Holding(players')
                      /\ \A e \in 1..(d - 1) :
                            SeatAfter(k, e, n) \notin Holding(players')
          IN  next_player' = Some(players[SeatAfter(k, d, n)].id)
      ]_vars

\* The turn passed over an empty-handed player and wrapped to the first
\* seat.
C10_Witness ==
    /\ result = "Ok"
    /\ call # None
    /\ next_player # None
    /\ Len(players) >= 3
    /\ SeatOf(next_player[1]) < SeatOf(call[1].user)
    /\ \E i \in 1..Len(players) :
          /\ i > SeatOf(call[1].user)
          /\ i \notin Holding(players)

-----------------------------------------------------------------------------
(* C11 *)

\* The seats met when the turn rotates from seat k over the hands ps: every
\* seat after k, in seating order wrapped from the last seat to the first,
\* up to and including the first whose hand is not empty.
Visited(k, ps) ==
    LET n == Len(ps)
        d == CHOOSE d \in 1..n :
                /\ SeatAfter(k, d, n) \in Holding(ps)
                /\ \A e \in 1..(d - 1) : SeatAfter(k, e, n) \notin Holding(ps)
    IN  {SeatAfter(k, e, n) : e \in 1..d}

\* The rotation after the move accepted in this step meets last_player.
ReachesLastPlayer ==
    /\ Holding(players') # {}
    /\ last_player' # None
    /\ SeatOf(last_player'[1]) \in Visited(SeatOf(call'[1].user), players')

\* C11: after an accepted move, if the rotation from the acting player to
\* the new next player meets the updated last_player, as the next seat or
\* as a seat passed over for holding no cards, the new last_move is Pass.
C11_TableCleared ==
    [][(result' = "Ok" /\ ReachesLastPlayer) => last_move' = Some(Pass)]_vars

\* The table was cleared on meeting a last player who holds no cards and
\* was passed over.
C11_Witness ==
    /\ result = "Ok"
    /\ call # None
    /\ call[1].cards = << >>
    /\ last_move = Some(Pass)
    /\ last_player # None
    /\ SeatOf(last_player[1]) \notin Holding(players)
    /\ next_player # None
    /\ SeatOf(last_player[1]) \in Visited(SeatOf(call[1].user), players)

-----------------------------------------------------------------------------
(* C12 *)

\* C12: after an accepted move whose rotation does not meet last_player,
\* the new last_move is the submitted hand if that is not a Pass, and the
\* last_move of before if it is.
C12_LastMove ==
    [][(result' = "Ok" /\ Holding(players') # {} /\ ~ReachesLastPlayer) =>
          last_move' = IF call'[1].cards = << >> THEN last_move
                       ELSE Build(call'[1].cards)
      ]_vars

\* A Pass was accepted and the standing move, not a Pass, still stands.
C12_Witness ==
    /\ result = "Ok"
    /\ call # None
    /\ call[1].cards = << >>
    /\ last_move # None
    /\ last_move # Some(Pass)

-----------------------------------------------------------------------------
(* C13 *)

\* How many seats after seat i seat j is, in seating order wrapped from the
\* last seat to the first (n for the seat itself).
SeatsFrom(i, j, n) == CHOOSE d \in 1..n : SeatAfter(i, d, n) = j

\* The seats strictly between seat i and seat j in that order.
SeatsBetween(i, j, n) == {SeatAfter(i, e, n) : e \in 1..(SeatsFrom(i, j, n) - 1)}

\* The first seat after seat k, in that order, holding cards in ps.
FirstHolderAfter(k, ps) ==
    LET n == Len(ps)
        d == CHOOSE d \in 1..n :
                /\ SeatAfter(k, d, n) \in Holding(ps)
                /\ \A e \in 1..(d - 1) : SeatAfter(k, e, n) \notin Holding(ps)
    IN  SeatAfter(k, d, n)

\* A player's hand stands on the table: a move that is not a Pass, whose
\* player nobody has answered with anything but a Pass.
HandStands == last_move # None /\ last_move # Some(Pass) /\ last_player # None

\* C13: an accepted move of P that is not a Pass, leaving two players or
\* more with cards, makes P's hand the standing move; while it stands, a
\* Pass of a player with another card holder still to come before P leaves
\* it standing and hands the turn to that player; the Pass of the last card
\* holder before P makes last_move Pass and hands the turn to P if P holds
\* cards, and otherwise to the first card holder after P.
C13_PassedAround ==
    [][result' = "Ok" =>
          LET n == Len(players)
              q == SeatOf(call'[1].user)
          IN  IF call'[1].cards # << >>
              THEN Cardinality(Holding(players')) >= 2 =>
                      /\ last_move' = Build(call'[1].cards)
                      /\ last_player' = Some(call'[1].user)
                      /\ next_player' =
                            Some(players[FirstHolderAfter(q, players')].id)
              ELSE (HandStands /\ SeatOf(last_player[1]) # q) =>
                      LET p == SeatOf(last_player[1])
                          still == SeatsBetween(q, p, n) \cap Holding(players)
                      IN  /\ last_player' = last_player
                          /\ players' = players
                          /\ IF still # {}
                             THEN /\ last_move' = last_move
                                  /\ next_player' = Some(players[
                                        FirstHolderAfter(q, players)].id)
                                  /\ FirstHolderAfter(q, players) \in still
                             ELSE /\ last_move' = Some(Pass)
                                  /\ next_player' = Some(players[
                                        IF p \in Holding(players) THEN p
                                        ELSE FirstHolderAfter(p, players)].id)
      ]_vars

\* Two players passed in turn on the hand of a player who still holds
\* cards: the table is cleared and the turn is that player's again.
C13_Witness ==
    /\ result = "Ok"
    /\ call # None
    /\ call[1].cards = << >>
    /\ last_move = Some(Pass)
    /\ last_player # None
    /\ next_player = last_player
    /\ Cardinality(Holding(players)) >= 3

-----------------------------------------------------------------------------
(* C14 *)

\* C14: if fewer than two players hold cards after an accepted move, the
\* Round returned has next_player None and its get_next_player() is None.
C14_RoundOver ==
    (result = "Ok" /\ Cardinality(Holding(players)) < 2) =>
        next_player = None /\ get_next_player = None

\* A player played a last card and left one player holding cards.
C14_Witness ==
    /\ result = "Ok"
    /\ call # None
    /\ call[1].cards # << >>
    /\ Cardinality(Holding(players)) = 1
    /\ SeatOf(call[1].user) \notin Holding(players)

-----------------------------------------------------------------------------
(* C15 *)

\* Somebody holds the card of rank rank_order[0] and suit suit_order[0].
LowestCardHeld ==
    \E i \in 1..Len(players) :
        has_card(players[i], Card(rank_order[1], suit_order[1]))

\* C15 as stated: in every Round of the chain, the fresh Round included,
\* next_player is None if and only if at most one player holds cards.
C15_NextPlayerNoneIffOver ==
    next_player = None <=> Cardinality(Holding(players)) <= 1

\* C15 amended: in every Round returned by submit_move next_player is None
\* if and only if at most one player holds cards; in the fresh Round
\* next_player is None whatever the hands, and get_next_player() is None if
\* and only if at most one player holds cards or nobody holds the lowest
\* card.
C15_NextPlayerNoneIffOverOnceStarted ==
    IF last_move # None
    THEN next_player = None <=> Cardinality(Holding(players)) <= 1
    ELSE /\ next_player = None
         /\ get_next_player = None <=>
                (Cardinality(Holding(players)) <= 1 \/ ~LowestCardHeld)

\* A Round returned by submit_move in which one player holds cards and there
\* is no next player.
C15_Witness ==
    /\ last_move # None
    /\ last_player # None
    /\ next_player = None
    /\ Cardinality(Holding(players)) = 1

-----------------------------------------------------------------------------
(* C16 *)

\* C16: every Round returned by submit_move has a last_move, and a Round
\* without one is the Round of the step before: last_move is None in the
\* fresh Round only.
C16_LastMoveNoneOnlyWhenFresh ==
    [][/\ result' = "Ok" => last_move' # None
       /\ last_move' = None => (last_move = None /\ UNCHANGED round_vars)
      ]_vars

\* A Round was returned whose last_move is Pass, with players still to play.
C16_Witness ==
    /\ result = "Ok"
    /\ last_move = Some(Pass)
    /\ next_player # None

-----------------------------------------------------------------------------
(* C17 *)

\* The hand accepted in this step is a trick of this type.
AcceptedTrick(trick_type) ==
    /\ result' = "Ok"
    /\ Build(call'[1].cards)[1].kind = "FiveCardTrick"
    /\ Build(call'[1].cards)[1].trick_type = trick_type

\* C17: with reversals enabled, an accepted FourOfAKind leaves suit_order
\* and rank_order each the element-by-element reverse of what it was before
\* the move.
C17_FourOfAKindReverses ==
    [][(ruleset.reversals_enabled /\ AcceptedTrick("FourOfAKind")) =>
          /\ Len(suit_order') = Len(suit_order)
          /\ \A i \in 1..Len(suit_order) :
                suit_order'[i] = suit_order[Len(suit_order) + 1 - i]
          /\ Len(rank_order') = Len(rank_order)
          /\ \A i \in 1..Len(rank_order) :
                rank_order'[i] = rank_order[Len(rank_order) + 1 - i]
      ]_vars

\* A second FourOfAKind was accepted in a round: the orders, reversed by
\* the first, are the default orders again.
C17_Witness ==
    /\ result = "Ok"
    /\ call # None
    /\ ruleset.reversals_enabled
    /\ Build(call[1].cards)[1].kind = "FiveCardTrick"
    /\ Build(call[1].cards)[1].trick_type = "FourOfAKind"
    /\ call[1].user = "b"
    /\ suit_order = DEFAULT_SUIT_ORDER
    /\ rank_order = DEFAULT_RANK_ORDER

-----------------------------------------------------------------------------
(* C18 *)

-----------------------------------------------------------------------------
(* C19 *)

\* The seats whose hand holds the card of rank rank_order[0] and suit
\* suit_order[0].
LowestCardSeats ==
    {i \in 1..Len(players) :
        BagIn(Card(rank_order[1], suit_order[1]), players[i].hand)}

\* C19: in a Round whose stored next_player is None, with two players or
\* more holding cards and the lowest card held, get_next_player() is the
\* first player in seating order who holds the lowest card; in a Round whose
\* stored next_player is Some(id), get_next_player() is Some(id).
C19_StartingPlayer ==
    IF next_player = None
    THEN (Cardinality(Holding(players)) >= 2 /\ LowestCardSeats # {}) =>
            /\ get_next_player # None
            /\ SeatOf(get_next_player[1]) \in LowestCardSeats
            /\ \A i \in LowestCardSeats : SeatOf(get_next_player[1]) <= i
    ELSE get_next_player = next_player

\* A fresh Round in which two players hold the lowest card and the first
\* seat does not.
C19_Witness ==
    /\ next_player = None
    /\ last_move = None
    /\ Cardinality(LowestCardSeats) >= 2
    /\ 1 \notin LowestCardSeats

-----------------------------------------------------------------------------
(* C20 *)

\* C20: in every Round the next player, stored or computed, holds a card: a
\* player whose hand is empty is never the next player again.
C20_NextPlayerHoldsCards ==
    /\ next_player # None => SeatOf(next_player[1]) \in Holding(players)
    /\ get_next_player # None
          => SeatOf(get_next_player[1]) \in Holding(players)

\* A player is out and the round goes on with the turn at another player.
C20_Witness ==
    /\ result = "Ok"
    /\ next_player # None
    /\ Cardinality(Holding(players)) < Len(players)
    /\ Cardinality(Holding(players)) >= 2
    /\ last_move # Some(Pass)

-----------------------------------------------------------------------------
(* C21 *)

\* C21: when last_move is Pass, every non-empty classified hand of cards
\* the current player holds is accepted, whatever its shape and rank.
C21_AnyHandLeadsOnClearedTable ==
    (get_next_player # None /\ last_move = Some(Pass)) =>
        \A cards \in Submissions :
            (/\ cards # << >>
             /\ Build(cards) # None
             /\ Submitted(cards) \sqsubseteq
                    players[SeatOf(get_next_player[1])].hand)
                => submit_move(get_next_player[1], cards).result = "Ok"

\* The third player's Three of Clubs, the lowest card, was accepted in the
\* round that the second player opened: it beats nothing, the table was
\* cleared.
C21_Witness ==
    /\ result = "Ok"
    /\ call = Some([user |-> "c",
                    cards |-> <<P("Three", "Clubs")>>])
    /\ Len(players) = 3
    /\ BagIn(C("Four", "Clubs"), players[2].hand)
    /\ last_move = Some(Single(P("Three", "Clubs")))

-----------------------------------------------------------------------------
(* C22 *)

\* C22: on a Round whose get_next_player() is None no call of submit_move,
\* whatever the user id and the cards, returns a Round.
C22_TerminalRound ==
    get_next_player = None =>
        \A user_id \in UserIds, cards \in Submissions :
            submit_move(user_id, cards).result # "Ok"

\* A call was made on the Round that ended a round: one player holds cards.
C22_Witness ==
    /\ result = "Panic"
    /\ last_move # None
    /\ get_next_player = None
    /\ Cardinality(Holding(players)) = 1

-----------------------------------------------------------------------------
(* C23 *)

\* C23: submissions are applied one at a time in any order of arrival; one
\* is accepted only if its sender is get_next_player() of the Round it is
\* applied to, and one sent out of turn is rejected and leaves the Round,
\* and with it the outcome of every later submission, as it was.
C23_ArrivalOrder ==
    [][/\ result' = "Ok" => Some(call'[1].user) = get_next_player
       /\ result' = "NotCurrentPlayer" => UNCHANGED round_vars
      ]_vars

\* A submission sent out of turn was rejected in a round of three players
\* or more with a hand standing on the table.
C23_Witness ==
    /\ result = "NotCurrentPlayer"
    /\ HandStands
    /\ Cardinality(Holding(players)) >= 3

-----------------------------------------------------------------------------
(* Properties of Hand::build *)

\* Hand::build has been called on build_cards.
Built == build_hand # Some(NotBuilt)

\* The build returned a five-card trick of the given type.
BuiltTrick(trick_type) ==
    /\ build_hand # None
    /\ build_hand[1].kind = "FiveCardTrick"
    /\ build_hand[1].trick_type = trick_type

\* The ranks of the cards of a list.
RanksOf(cards) == {cards[i].rank : i \in 1..Len(cards)}

\* The suits of the cards of a list.
SuitsOf(cards) == {cards[i].suit : i \in 1..Len(cards)}

\* The cards of the list can be compared: they share one reversed flag.
SameFlag(cards) ==
    \A i, j \in 1..Len(cards) : cards[i].reversed = cards[j].reversed

\* C24: for a card list of any length other than five, Hand::build returns
\* Pass for no cards, Single for one card, Pair for two cards exactly when
\* both share a rank, Prial for three cards exactly when all three share a
\* rank, and None in every other case (mismatched ranks, four cards, six or
\* more cards).
C24_BuildOtherLengths ==
    (Built /\ Len(build_cards) # 5) =>
        build_hand =
            CASE Len(build_cards) = 0 -> Some(Pass)
              [] Len(build_cards) = 1 -> Some(Single(build_cards[1]))
              [] Len(build_cards) = 2 ->
                    IF Cardinality(RanksOf(build_cards)) = 1
                    THEN Some(Pair(build_cards[1], build_cards[2]))
                    ELSE None
              [] Len(build_cards) = 3 ->
                    IF Cardinality(RanksOf(build_cards)) = 1
                    THEN Some(Prial(build_cards[1], build_cards[2],
                                    build_cards[3]))
                    ELSE None
              [] OTHER -> None

\* Two cards of different ranks were handed in and no hand came back.
C24_Witness ==
    /\ Built
    /\ Len(build_cards) = 2
    /\ Cardinality(RanksOf(build_cards)) = 2
    /\ build_hand = None

\* How many cards of the list have the rank.
RankCount(cards, rank) ==
    Cardinality({i \in 1..Len(cards) : cards[i].rank = rank})

\* The sizes of the rank groups of the list.
GroupSizes(cards) == {RankCount(cards, rank) : rank \in RanksOf(cards)}

\* Every ordering of the cards of the list.
PermutationsOf(cards) ==
    {[i \in 1..Len(cards) |-> cards[p[i]]] :
        p \in Permutations(1..Len(cards))}

\* The trick type Hand::build makes of the cards, "Panic" where it faults
\* and "NoHand" where it returns None.
TrickTypeOf(cards) ==
    LET built == Build(cards)
    IN  IF built = None THEN "NoHand"
        ELSE IF built = Some(ComparisonPanic) THEN "Panic"
        ELSE built[1].trick_type

\* C25: for five cards with at most two distinct ranks, Hand::build returns
\* FiveOfAKind when all five share one rank, FullHouse when the rank groups
\* have sizes 3 and 2, and FourOfAKind when they have sizes 4 and 1,
\* whatever the order of the cards in the input and whichever rank group is
\* the larger: either group's size, met last in the map of rank counts,
\* gives the same trick. The cards are ones the sort can compare, sharing
\* one reversed flag; on cards of differing flags the build faults and
\* returns nothing.
C25_TwoRankTricks ==
    (Built /\ Len(build_cards) = 5 /\ Cardinality(RanksOf(build_cards)) <= 2)
        => IF SameFlag(build_cards)
           THEN LET trick == CASE GroupSizes(build_cards) = {5} -> "FiveOfAKind"
                               [] GroupSizes(build_cards) = {3, 2} -> "FullHouse"
                               [] GroupSizes(build_cards) = {4, 1} -> "FourOfAKind"
                IN  /\ BuiltTrick(trick)
                    /\ \A cards \in PermutationsOf(build_cards) :
                           TrickTypeOf(cards) = trick
                    /\ Cardinality(RanksOf(build_cards)) = 2 =>
                           \A rank \in RanksOf(build_cards) :
                               TwoRankTrick(sort_cards(build_cards),
                                            RankCount(build_cards, rank))
                                   = build_hand
           ELSE build_hand = Some(ComparisonPanic)

\* A four of a kind of reversed cards whose odd card ranks above the four.
C25_Witness ==
    /\ BuiltTrick("FourOfAKind")
    /\ \A i \in 1..5 : build_cards[i].reversed
    /\ RankCount(build_cards, "Three") = 4
    /\ RankCount(build_cards, "Two") = 1

\* The rank and up to n - 1 ranks below it on the chain of previous_rank.
RECURSIVE StepsDown(_, _)
StepsDown(rank, n) ==
    IF n = 0 THEN {}
    ELSE {rank} \cup (IF PreviousRank(rank) = None THEN {}
                      ELSE StepsDown(PreviousRank(rank)[1], n - 1))

\* The ranks of the five cards are five consecutive steps of the chain.
Consecutive(cards) ==
    /\ Cardinality(RanksOf(cards)) = 5
    /\ \E top \in RanksOf(cards) : StepsDown(top, 5) = RanksOf(cards)

\* All cards of the list are of one suit.
OneSuit(cards) == Cardinality(SuitsOf(cards)) = 1

\* C26: for five cards with five distinct ranks (cards the sort can compare,
\* sharing one reversed flag), Hand::build returns StraightFlush when the
\* ranks are five consecutive steps of the chain and all suits are equal,
\* Straight when only the ranks are consecutive, Flush when only the suits
\* are equal, and None when neither holds.
C26_FiveDistinctRanks ==
    (/\ Built
     /\ Len(build_cards) = 5
     /\ Cardinality(RanksOf(build_cards)) = 5
     /\ SameFlag(build_cards))
        => IF Consecutive(build_cards) /\ OneSuit(build_cards)
           THEN BuiltTrick("StraightFlush")
           ELSE IF Consecutive(build_cards) THEN BuiltTrick("Straight")
           ELSE IF OneSuit(build_cards) THEN BuiltTrick("Flush")
           ELSE build_hand = None

\* Three to Seven of Clubs, all reversed, came back as a Flush.
C26_Witness ==
    /\ BuiltTrick("Flush")
    /\ Consecutive(build_cards)
    /\ OneSuit(build_cards)
    /\ \A i \in 1..5 : build_cards[i].reversed
    /\ RanksOf(build_cards) = {"Three", "Four", "Five", "Six", "Seven"}

\* C27 as stated: for five cards with three or four distinct ranks, every
\* distribution of ranks other than five equal, 3+2, 4+1 or five distinct,
\* Hand::build returns None.
C27_OtherDistributionsNone ==
    (/\ Built
     /\ Len(build_cards) = 5
     /\ Cardinality(RanksOf(build_cards)) \in {3, 4}
     /\ SameFlag(build_cards))
        => build_hand = None

\* C27 as the code has it: for five cards with three or four distinct ranks
\* Hand::build returns None unless all five are of one suit, and then it
\* returns a Flush; it never returns any other trick for them. (On cards of
\* differing reversed flags the build faults.)
C27_OtherDistributionsNoneOrFlush ==
    (/\ Built
     /\ Len(build_cards) = 5
     /\ Cardinality(RanksOf(build_cards)) \in {3, 4})
        => IF ~SameFlag(build_cards) THEN build_hand = Some(ComparisonPanic)
           ELSE IF OneSuit(build_cards) THEN BuiltTrick("Flush")
           ELSE build_hand = None

\* Five cards of four ranks and two suits were handed in and no hand came
\* back.
C27_Witness ==
    /\ Built
    /\ Len(build_cards) = 5
    /\ Cardinality(RanksOf(build_cards)) = 4
    /\ Cardinality(SuitsOf(build_cards)) = 2
    /\ SameFlag(build_cards)
    /\ build_hand = None

\* C28: five cards that all share one suit and whose ranks are not five
\* consecutive steps of the chain classify as Flush even when ranks repeat
\* among them, provided they have more than two distinct ranks. (The cards
\* share one reversed flag; on cards of differing flags the build faults.)
C28_FlushWithRepeatedRanks ==
    (/\ Built
     /\ Len(build_cards) = 5
     /\ OneSuit(build_cards)
     /\ ~Consecutive(build_cards)
     /\ Cardinality(RanksOf(build_cards)) > 2)
        => IF SameFlag(build_cards) THEN BuiltTrick("Flush")
           ELSE build_hand = Some(ComparisonPanic)

\* Two Threes, two Fours and a Five of Clubs came back as a Flush.
C28_Witness ==
    /\ BuiltTrick("Flush")
    /\ OneSuit(build_cards)
    /\ RankCount(build_cards, "Three") = 2
    /\ RankCount(build_cards, "Four") = 2
    /\ RankCount(build_cards, "Five") = 1

\* The build returned a Straight or a StraightFlush.
BuiltStraight == BuiltTrick("Straight") \/ BuiltTrick("StraightFlush")

\* C29: straights do not wrap around. The predecessor chain is Three, Four,
\* ..., King, Ace, Two with no predecessor for Three; whatever is built as a
\* Straight or StraightFlush has five consecutive ranks of that chain, so no
\* five cards containing both a Two and a Three are; and the lowest
\* straight, Three to Seven, and the highest, Jack to Two, are built (of
\* unreversed cards).
C29_StraightsDoNotWrap ==
    /\ PreviousRank("Three") = None
    /\ \A i \in 2..13 :
          PreviousRank(DEFAULT_RANK_ORDER[i]) = Some(DEFAULT_RANK_ORDER[i - 1])
    /\ (Built /\ BuiltStraight) => Consecutive(build_cards)
    /\ (Built /\ {"Two", "Three"} \subseteq RanksOf(build_cards))
          => ~BuiltStraight
    /\ (/\ Built
        /\ Len(build_cards) = 5
        /\ \A i \in 1..5 : ~build_cards[i].reversed
        /\ \/ RanksOf(build_cards) = {"Three", "Four", "Five", "Six", "Seven"}
           \/ RanksOf(build_cards) = {"Jack", "Queen", "King", "Ace", "Two"})
          => BuiltStraight

\* Queen, King, Ace, Two and Three of Clubs came back as a Flush, no
\* straight.
C29_Witness ==
    /\ BuiltTrick("Flush")
    /\ RanksOf(build_cards) = {"Queen", "King", "Ace", "Two", "Three"}
    /\ \A i \in 1..5 : ~build_cards[i].reversed

\* Where the card stands in the deck.
DeckIndex(c) ==
    CHOOSE k \in 1..Len(FullDeck) : FullDeck[k] = <<c.rank, c.suit>>

\* The cards of the list are in the order of the deck.
InDeckOrder(cards) ==
    \A i \in 1..(Len(cards) - 1) :
        DeckIndex(cards[i]) <= DeckIndex(cards[i + 1])

\* C30: Hand::build is deterministic and insensitive to the order of its
\* input: for every card list and every permutation of it, both calls
\* return None, or both return the same Hand variant, and for five cards the
\* same TrickType with the same sorted array of cards. (Where one call
\* faults on cards of differing reversed flags, so does the other.) Every
\* list is a permutation of the one in deck order, so the lists in deck
\* order are compared with all their permutations.
C30_OrderInsensitive ==
    (Built /\ InDeckOrder(build_cards)) =>
        \A cards \in PermutationsOf(build_cards) :
            \A other \in {Build(cards)} :
                IF build_hand = None THEN other = None
                ELSE /\ other # None
                     /\ other[1].kind = build_hand[1].kind
                     /\ Len(build_cards) = 5 => other = build_hand

\* A straight was built from cards in deck order, and the same hand from
\* another order of them.
C30_Witness ==
    /\ BuiltTrick("Straight")
    /\ InDeckOrder(build_cards)
    /\ \E cards \in PermutationsOf(build_cards) :
          cards # build_cards /\ Build(cards) = build_hand
-----------------------------------------------------------------------------
(* Properties of the comparison of cards *)

\* The comparison of cmp_cards has been made.
Compared == cmp_result # "NotCompared"

Orderings == {"Less", "Equal", "Greater"}

\* C31: comparing two cards whose reversed flags differ is a fault, never an
\* ordering result; comparing two cards with equal flags always yields an
\* ordering.
C31_MixedFlagsFault ==
    Compared =>
        IF cmp_cards[1].reversed # cmp_cards[2].reversed
        THEN cmp_result = "Panic"
        ELSE cmp_result \in Orderings

\* The unreversed Three of Clubs was compared with the reversed Four of
\* Clubs and the comparison faulted.
C31_Witness ==
    /\ cmp_result = "Panic"
    /\ cmp_cards[1] = NewCard("Three", "Clubs", FALSE)
    /\ cmp_cards[2] = NewCard("Four", "Clubs", TRUE)

\* a < b as the comparison has it.
CardLess(a, b) == CardPartialCmp(a, b) = "Less"

\* The card with the other reversed flag.
Flipped(c) == NewCard(c.rank, c.suit, ~c.reversed)

\* a comes before b by rank precedence, or by suit precedence on equal ranks.
Precedes(a, b) ==
    \/ RankIndex(a.rank) < RankIndex(b.rank)
    \/ /\ a.rank = b.rank
       /\ SuitIndex(a.suit) < SuitIndex(b.suit)

\* C32: over cards sharing one ordering context and one reversed flag the
\* comparison is a strict total order keyed first on rank precedence and
\* then on suit precedence for equal ranks: Equal only for a card and
\* itself, Less one way exactly when Greater the other way, transitive, and
\* Less for unreversed cards exactly when the first precedes the second by
\* rank, then suit. With reversed = true the order is exactly the inverse:
\* a < b reversed if and only if b < a unreversed.
C32_StrictTotalOrder ==
    (Compared /\ cmp_cards[1].reversed = cmp_cards[2].reversed) =>
        LET a == cmp_cards[1]
            b == cmp_cards[2]
        IN  /\ cmp_result = "Equal" <=> a = b
            /\ cmp_result = "Less" <=> CardPartialCmp(b, a) = "Greater"
            /\ cmp_result = "Greater" <=> CardPartialCmp(b, a) = "Less"
            /\ cmp_result = "Less" =>
                   \A c \in AllCards :
                       (c.reversed = b.reversed /\ CardLess(b, c))
                           => CardLess(a, c)
            /\ ~a.reversed => (cmp_result = "Less" <=> Precedes(a, b))
            /\ a.reversed => (cmp_result = "Less" <=> Precedes(b, a))
            /\ cmp_result = "Less" <=> CardLess(Flipped(b), Flipped(a))

\* The reversed Three of Hearts came out less than the reversed Three of
\* Clubs.
C32_Witness ==
    /\ cmp_result = "Less"
    /\ cmp_cards[1] = NewCard("Three", "Hearts", TRUE)
    /\ cmp_cards[2] = NewCard("Three", "Clubs", TRUE)

-----------------------------------------------------------------------------
(* Properties of Rounds of any making *)

\* C33: the turn-rotation loop inside submit_move terminates after at most
\* as many seat advances as there are players, for every Round on which
\* submit_move can be called, including Rounds in which all players are
\* empty-handed: no call is left in the loop.
C33_RotationTerminates == result # "Diverge"

\* A Pass was submitted to a Round whose players are all empty-handed and
\* the loop did not end.
C33_Witness ==
    /\ result = "Diverge"
    /\ Holding(players) = {}
    /\ next_player # None

-----------------------------------------------------------------------------
(* Further properties of Rounds reached from a fresh Round *)

\* C34: in every Round reached by accepted moves, if next_player is Some(p)
\* and last_player is Some(p) then last_move is Pass: a player is never
\* required to beat a standing play that is their own.
C34_OwnPlayNeverStands ==
    (next_player # None /\ next_player = last_player)
        => last_move = Some(Pass)

\* Every other player passed and the turn came back to the last player, on
\* a cleared table, with three players holding cards.
C34_Witness ==
    /\ result = "Ok"
    /\ next_player # None
    /\ next_player = last_player
    /\ last_move = Some(Pass)
    /\ Cardinality(Holding(players)) = 3

\* The orders are the ones the Round started with.
InitialOrders ==
    suit_order = DEFAULT_SUIT_ORDER /\ rank_order = DEFAULT_RANK_ORDER

\* The orders are the exact reverses of the ones the Round started with.
ReversedOrders ==
    /\ suit_order = Reverse(DEFAULT_SUIT_ORDER)
    /\ rank_order = Reverse(DEFAULT_RANK_ORDER)

\* C35: in every Round reached from a fresh Round, suit_order and
\* rank_order are either both the initial orders or both their exact
\* reverses, never one reversed without the other; with reversals enabled
\* they are the initial orders exactly when the number of FourOfAKind moves
\* accepted so far is even, and two successive reversals restore them.
C35_OrdersFollowParity ==
    /\ InitialOrders \/ ReversedOrders
    /\ ruleset.reversals_enabled => (InitialOrders <=> fours % 2 = 0)
    /\ ~ruleset.reversals_enabled => InitialOrders
    /\ Reverse(Reverse(suit_order)) = suit_order
    /\ Reverse(Reverse(rank_order)) = rank_order

\* A second FourOfAKind has been accepted and the orders are the initial
\* ones again.
C35_Witness ==
    /\ result = "Ok"
    /\ fours = 2
    /\ ruleset.reversals_enabled
    /\ InitialOrders

\* The lowest card under the Round's orders, as a played card.
LowestPlayedCard == P(rank_order[1], suit_order[1])

\* C36: no reachable non-terminal Round is a deadlock. Where a next player
\* exists, before the first move the starting player's Single of the lowest
\* card is accepted, and once a move has been made a Pass (the empty
\* submission) by the current player is accepted whatever last_move is,
\* also when last_move is already Pass.
C36_NoDeadlock ==
    get_next_player # None =>
        IF last_move = None
        THEN submit_move(get_next_player[1], <<LowestPlayedCard>>).result
                 = "Ok"
        ELSE submit_move(get_next_player[1], << >>).result = "Ok"

\* A Pass was accepted, the table is cleared and the round goes on with a
\* player other than the last one to play.
C36_Witness ==
    /\ result = "Ok"
    /\ call # None
    /\ call[1].cards = << >>
    /\ last_move = Some(Pass)
    /\ next_player # None
    /\ next_player # last_player

\* The number of cards held by the players together.
RECURSIVE TotalCards(_)
TotalCards(ps) ==
    IF Len(ps) = 0 THEN 0
    ELSE BagCardinality(ps[1].hand) + TotalCards(Tail(ps))

HoldsCards(user_id, cards) ==
    /\ get_player(user_id) # None
    /\ play_move(get_player(user_id)[1], cards) # None

\* What a call of submit_move returns: a Round ("Ok") or the error.
Outcome(user_id, cards) == submit_move(user_id, cards).result

\* C38: in every Round reached that has a next player the errors of
\* submit_move come in a fixed order. Any caller but the current player
\* gets NotCurrentPlayer, whatever the cards. The current player gets
\* InvalidHand for cards that
\* form no hand; else, before the first move, FirstRoundPass for no cards
\* and FirstHandMustContainLowestCard for cards without the lowest card,
\* and after it HandNotHighEnough for a hand that does not beat the
\* standing hand, in each case whether or not the cards are held;
\* PlayerDoesntHaveCard is returned only when none of these applies.
C38_ErrorPrecedence ==
    [](get_next_player # None =>
          \A user_id \in UserIds, cards \in Submissions :
              LET current == user_id = get_next_player[1]
                  out == Outcome(user_id, cards)
                  hand == Build(cards)
                  first_pass == last_move = None /\ cards = << >>
                  no_lowest == /\ last_move = None
                               /\ cards # << >>
                               /\ ~contains_lowest_card(cards)
                  too_low == /\ last_move \notin {None, Some(Pass)}
                             /\ hand \notin {None, Some(Pass)}
                             /\ ~hand_beats_last_move(hand[1])
              IN  IF ~current THEN out = "NotCurrentPlayer"
                  ELSE IF hand = None THEN out = "InvalidHand"
                  ELSE IF first_pass THEN out = "FirstRoundPass"
                  ELSE IF no_lowest
                       THEN out = "FirstHandMustContainLowestCard"
                  ELSE IF too_low THEN out = "HandNotHighEnough"
                  ELSE out = "PlayerDoesntHaveCard"
                           <=> ~HoldsCards(user_id, cards))

\* The current player has been told HandNotHighEnough, and cards that are
\* not held and would not beat the standing hand get that answer.
C38_Witness ==
    /\ result = "HandNotHighEnough"
    /\ get_next_player # None
    /\ \E cards \in Submissions :
          /\ ~HoldsCards(get_next_player[1], cards)
          /\ Outcome(get_next_player[1], cards) = "HandNotHighEnough"

\* C39: in every Round reached by accepted moves last_player is None exactly
\* when last_move is None; and a standing hand that is not a Pass is the
\* hand of the last accepted move that was not a Pass, with last_player
\* the player who submitted it. Step by step: a call that is turned away
\* leaves both fields alone; after an accepted move that is not a Pass a
\* standing hand is the hand just submitted and last_player its submitter;
\* after an accepted Pass a standing hand and last_player are what they
\* were.
C39_LastPlayerOwnsStandingHand ==
    /\ [](last_player = None <=> last_move = None)
    /\ [][/\ result' # "Ok" => UNCHANGED <<last_move, last_player>>
          /\ (result' = "Ok" /\ last_move' \notin {None, Some(Pass)}) =>
                IF call'[1].cards # << >>
                THEN /\ last_move' = Build(call'[1].cards)
                     /\ last_player' = Some(call'[1].user)
                ELSE /\ last_move' = last_move
                     /\ last_player' = last_player
         ]_vars

\* Among three players or more a Pass was accepted, and the hand of an
\* earlier move still stands: the next player is neither the one who
\* passed nor the one who played it.
C39_Witness ==
    /\ result = "Ok"
    /\ Len(players) >= 3
    /\ call # None
    /\ call[1].cards = << >>
    /\ last_move \notin {None, Some(Pass)}
    /\ last_player # None
    /\ next_player \notin {None, last_player, Some(call[1].user)}

\* PlayedCard::new(rank, suit, reversed) for each card of the list.
WithFlag(cards, reversed) ==
    [i \in 1..Len(cards) |->
        PlayedCard(cards[i].rank, cards[i].suit, reversed, FALSE)]

\* C40: five cards whose ranks are five consecutive steps of the chain are
\* built as a StraightFlush when of one suit and as a Straight otherwise,
\* whether the cards' reversed flag is false or true, and the trick type
\* built of the cards is the same with either flag.
C40_StraightsWhateverTheFlag ==
    (/\ Built
     /\ Len(build_cards) = 5
     /\ Consecutive(build_cards)
     /\ SameFlag(build_cards))
        => /\ BuiltTrick(IF OneSuit(build_cards)
                         THEN "StraightFlush" ELSE "Straight")
           /\ TrickTypeOf(WithFlag(build_cards, TRUE))
                  = TrickTypeOf(WithFlag(build_cards, FALSE))

\* Three to Six of Clubs and the Seven of Hearts, all reversed, built no
\* hand; the same cards unreversed build a Straight.
C40_Witness ==
    /\ Built
    /\ build_hand = None
    /\ Consecutive(build_cards)
    /\ ~OneSuit(build_cards)
    /\ \A i \in 1..5 : build_cards[i].reversed
    /\ RanksOf(build_cards) = {"Three", "Four", "Five", "Six", "Seven"}
    /\ TrickTypeOf(WithFlag(build_cards, FALSE)) = "Straight"

=============================================================================
